---- MODULE Spec2Model ----
(***************************************************************************)
(* mayheap: the box_pool! singleton of src/boxed.rs and the Vec / String   *)
(* wrappers of src/vec.rs and src/string.rs, each in its two builds.       *)
(*                                                                         *)
(*   Spec       fixed-capacity build (feature "heapless"): the lock-free   *)
(*              once-only init() protocol on the static STATE cell, the    *)
(*              registration loop over BLOCKS, and the handles (Box) that  *)
(*              threads allocate, write through, clone and drop.           *)
(*   FairSpec   the init() protocol under the scheduling the spin-wait     *)
(*              relies on, with callers that allocate and drop.            *)
(*   SpecAlloc  heap-backed build (feature "alloc").                       *)
(*   SpecVec    Vec<T, N>, String<N> and IntoIter<T, N> in the             *)
(*              fixed-capacity build: hvec is the heapless::Vec.           *)
(*   SpecVecAlloc  the same in the heap-backed build: avec is the          *)
(*              alloc::vec::Vec.                                           *)
(*   SpecBoth   one program compiled for both builds, run side by side     *)
(*              until the fixed-capacity build reports its capacity        *)
(*              exceeded.                                                  *)
(*                                                                         *)
(* STATE is modelled as the modification order of the atomic cell: every   *)
(* write carries the set of manage() calls its writer released with it, an *)
(* acquire read that reads the write joins that set into the reader's      *)
(* happens-before set, and a plain load may read any write not older than  *)
(* the last one the thread has seen.                                       *)
(***************************************************************************)
EXTENDS Naturals, Integers, Sequences, FiniteSets

\* ---------------------------------------------------------------- bounds
\* number of threads racing on the pool
NumThreads == 2
\* $capacity of the declared pool
N == 2
\* in the heap-backed build, the most boxes one thread keeps alive
MaxBoxes == 3
\* in the heap-backed build, how far past N a vector is grown
MaxGrow == 2

Threads == 1..NumThreads
\* the values of $ty the callers pass (those of the module's doc example)
Values == {42, 43}
\* BoxBlock::new(): the contents of a block that holds no value
NoVal == 0

\* ------------------------------------------------------------- InitState
Uninitialized == 0
Initializing == 1
Initialized == 2

\* impl From<u8> for InitState
InitStateFrom(value) ==
    IF value = 0 THEN "Uninitialized"
    ELSE IF value = 1 THEN "Initializing"
    ELSE IF value = 2 THEN "Initialized"
    ELSE "unreachable"

\* ------------------------------------------------------------- the state
VARIABLES
    State,    \* the static STATE (an AtomicU8; the name STATE is reserved in
              \* TLA+): its writes, in modification order
    seen,     \* per thread: index in State of the latest write it has read
    hb,       \* per thread: the blocks whose manage() happens-before it now
    pc,       \* per thread: where it is inside alloc()/init()
    idx,      \* per thread: position of `for block in blocks`
    arg,      \* per thread: the value moved into the alloc() call in progress
    ret,      \* what the step just taken returned to its caller, and to whom
    managed,  \* per block: how many times it was passed to manage()
    free,     \* the pool's free stack
    data,     \* per block: the value stored in it
    live,     \* per thread, per block: live handles the thread owns on it
    boxes     \* heap-backed build: per thread, the values of its live boxes

\* the containers of src/vec.rs and src/string.rs
VARIABLES
    kind,     \* what the program holds: "Vec", "String", "IntoIter" (the
              \* vector was moved into a by-value iterator) or "Panicked"
    hvec,     \* fixed-capacity build: the elements of the heapless::Vec (of
              \* a String: its bytes)
    avec,     \* heap-backed build: the elements of the alloc::vec::Vec
    vop,      \* the operation just applied, with its arguments
    hres,     \* what it returned in the fixed-capacity build
    ares,     \* what it returned in the heap-backed build
    hiter,    \* fixed-capacity build: the IntoIter {vec, next}
    aiter,    \* heap-backed build: the elements alloc::vec::IntoIter holds
    hclone,   \* fixed-capacity build: the clone of the IntoIter
    aclone,   \* heap-backed build: the clone of the IntoIter
    slots,    \* fixed-capacity build: per slot of hiter.vec, what became of
              \* the element that into_iter() found there
    reads,    \* fixed-capacity build: the slots of hiter.vec that the
              \* operation just applied read
    json,     \* per build: the text the serialization just made
    decoded   \* per build: what deserializing that text returned

poolVars == <<State, seen, hb, pc, idx, arg, ret, managed, free, data, live, boxes>>
vecVars == <<kind, hvec, avec, vop, hres, ares, hiter, aiter, hclone, aclone, slots, reads,
            json, decoded>>
vars == <<State, seen, hb, pc, idx, arg, ret, managed, free, data, live, boxes, vecVars>>

\* static mut BLOCKS: [BoxBlock<$ty>; $capacity]
BLOCKS == 1..N

\* live handles on block b held by the threads 1..n
RECURSIVE OwnersAmong(_, _)
OwnersAmong(b, n) == IF n = 0 THEN 0 ELSE live[n][b] + OwnersAmong(b, n - 1)

\* live handles on block b, over all threads
Owners(b) == OwnersAmong(b, NumThreads)

\* live handles on the blocks 1..n
RECURSIVE LiveAmong(_)
LiveAmong(n) == IF n = 0 THEN 0 ELSE Owners(n) + LiveAmong(n - 1)

\* live handles of the pool
LiveCount == LiveAmong(N)
\* occurrences of block b in the free stack
InFree(b) == Cardinality({i \in 1..Len(free) : free[i] = b})

Latest == State[Len(State)]

NoRet == [by |-> 0, tag |-> "None", val |-> NoVal]

\* ------------------------------------------------------ memory orderings
Releases(ord) == ord \in {"Release", "AcqRel", "SeqCst"}
Acquires(ord) == ord \in {"Acquire", "AcqRel", "SeqCst"}

\* compare_exchange(.., Ordering::AcqRel, Ordering::Acquire)
CasSuccessOrdering == "AcqRel"
CasFailureOrdering == "Acquire"
\* STATE.store(Initialized, Ordering::Release)
\* (faulty variant: a relaxed store)
StoreOrderingRelaxed == "Relaxed"
StoreOrdering == "Release"
\* STATE.load(Ordering::Acquire)
LoadOrdering == "Acquire"

\* the write thread t makes with ordering ord
Write(val, ord, t) ==
    [val |-> val, rel |-> IF Releases(ord) THEN hb[t] ELSE {}]

\* what thread t knows after reading write w with ordering ord
Acquire(t, w, ord) == IF Acquires(ord) THEN hb[t] \cup w.rel ELSE hb[t]

\* the writes a load by thread t may read (coherence)
Readable(t) == seen[t]..Len(State)

\* ------------------------------------------------------------------ init
\* compare_exchange(Uninitialized, Initializing, ..): does it succeed on cur
\* (faulty variant: it also replaces Initializing)
CasAnyNotInitialized(cur) == cur # Initialized
CasSucceeds(cur) == cur = Uninitialized

\* the match on the compare_exchange result: where the thread goes next
\* (faulty variant: the Err(Initializing) arm registers the blocks as well)
MatchArmLoserRegisters(ok, s) ==
    IF ok /\ s = "Uninitialized" THEN "manage"
    ELSE IF ~ok /\ s = "Initializing" THEN "manage"
    ELSE IF ~ok /\ s = "Initialized" THEN "alloc"
    ELSE "unreachable"
MatchArm(ok, s) ==
    IF ok /\ s = "Uninitialized" THEN "manage"
    ELSE IF ~ok /\ s = "Initializing" THEN "spin"
    ELSE IF ~ok /\ s = "Initialized" THEN "alloc"
    ELSE "unreachable"

\* while STATE.load(Acquire) == Initializing
\* (faulty variants: a loser that does not wait; a loop that never ends)
SpinNoWait(v) == FALSE
SpinNeverExits(v) == v # Uninitialized
SpinContinues(v) == v = Initializing

\* `for block in blocks`: the loop is over once every block was visited
\* (faulty variant: the last block is left out)
LoopStopsEarly(i) == i >= N - 1
LoopDone(i) == i >= N

\* --------------------------------------------------- Vec: construction
\* no operation, no result, no iterator
NoOp == [name |-> "new", x |-> NoVal, n |-> 0, s |-> <<>>, keep |-> {}]
NoRes == [tag |-> "None", val |-> NoVal]
NoIter == [vec |-> <<>>, next |-> 0, live |-> FALSE]
NoAllocIter == [rest |-> <<>>, live |-> FALSE]
\* no text, nothing decoded
NoJson == [fixed |-> <<>>, alloc |-> <<>>]
NoOut == [vec |-> <<>>, res |-> NoRes]
NoDecoded == [fixed |-> NoOut, alloc |-> NoOut]

\* Vec::new() in both builds: Inner::new(), and v.reserve(N) under "alloc"
VecNew ==
    /\ kind = "Vec"
    /\ hvec = <<>>
    /\ avec = <<>>
    /\ vop = NoOp
    /\ hres = NoRes
    /\ ares = NoRes
    /\ hiter = NoIter
    /\ aiter = NoAllocIter
    /\ hclone = NoIter
    /\ aclone = NoAllocIter
    /\ slots = <<>>
    /\ reads = {}
    /\ json = NoJson
    /\ decoded = NoDecoded

Init ==
    /\ State = <<[val |-> Uninitialized, rel |-> {}]>>
    /\ seen = [t \in Threads |-> 1]
    /\ hb = [t \in Threads |-> {}]
    /\ pc = [t \in Threads |-> "idle"]
    /\ idx = [t \in Threads |-> 0]
    /\ arg = [t \in Threads |-> NoVal]
    /\ ret = NoRet
    /\ managed = [b \in BLOCKS |-> 0]
    /\ free = <<>>
    /\ data = [b \in BLOCKS |-> NoVal]
    /\ live = [t \in Threads |-> [b \in BLOCKS |-> 0]]
    /\ boxes = [t \in Threads |-> <<>>]
    /\ VecNew

\* a thread calls $name.alloc(value): it enters init()
Call(t, v) ==
    /\ pc[t] = "idle"
    /\ pc' = [pc EXCEPT ![t] = "cas"]
    /\ arg' = [arg EXCEPT ![t] = v]
    /\ ret' = NoRet
    /\ UNCHANGED <<State, seen, hb, idx, managed, free, data, live, boxes, vecVars>>

\* STATE.compare_exchange(Uninitialized, Initializing, AcqRel, Acquire) and
\* the match on its result
Cas(t) ==
    /\ pc[t] = "cas"
    /\ \/ /\ CasSucceeds(Latest.val)
          /\ State' = Append(State, Write(Initializing, CasSuccessOrdering, t))
          /\ seen' = [seen EXCEPT ![t] = Len(State) + 1]
          /\ hb' = [hb EXCEPT ![t] = Acquire(t, Latest, CasSuccessOrdering)]
          /\ pc' = [pc EXCEPT ![t] = MatchArm(TRUE, InitStateFrom(Latest.val))]
       \/ \E i \in Readable(t) :
          /\ ~CasSucceeds(State[i].val)
          /\ State' = State
          /\ seen' = [seen EXCEPT ![t] = i]
          /\ hb' = [hb EXCEPT ![t] = Acquire(t, State[i], CasFailureOrdering)]
          /\ pc' = [pc EXCEPT ![t] = MatchArm(FALSE, InitStateFrom(State[i].val))]
    /\ idx' = [idx EXCEPT ![t] = 0]
    /\ ret' = NoRet
    /\ UNCHANGED <<arg, managed, free, data, live, boxes, vecVars>>

\* one turn of `for block in blocks { Pool.manage(block) }`
Manage(t) ==
    /\ pc[t] = "manage"
    /\ IF LoopDone(idx[t])
       THEN /\ pc' = [pc EXCEPT ![t] = "store"]
            /\ idx' = [idx EXCEPT ![t] = 0]
            /\ UNCHANGED <<managed, free, hb>>
       ELSE LET b == idx[t] + 1 IN
            /\ managed' = [managed EXCEPT ![b] = @ + 1]
            /\ free' = <<b>> \o free
            /\ hb' = [hb EXCEPT ![t] = @ \cup {b}]
            /\ idx' = [idx EXCEPT ![t] = b]
            /\ pc' = pc
    /\ ret' = NoRet
    /\ UNCHANGED <<State, seen, arg, data, live, boxes, vecVars>>

\* STATE.store(Initialized, Release); the winner returns from init()
Store(t) ==
    /\ pc[t] = "store"
    /\ State' = Append(State, Write(Initialized, StoreOrdering, t))
    /\ seen' = [seen EXCEPT ![t] = Len(State) + 1]
    /\ pc' = [pc EXCEPT ![t] = "alloc"]
    /\ ret' = NoRet
    /\ UNCHANGED <<hb, idx, arg, managed, free, data, live, boxes, vecVars>>

\* one STATE.load(Acquire) of the spin loop, reading write i
SpinLoad(t, i) ==
    /\ pc[t] = "spin"
    /\ i \in Readable(t)
    /\ seen' = [seen EXCEPT ![t] = i]
    /\ hb' = [hb EXCEPT ![t] = Acquire(t, State[i], LoadOrdering)]
    /\ pc' = [pc EXCEPT ![t] = IF SpinContinues(State[i].val) THEN "spin" ELSE "alloc"]
    /\ ret' = NoRet
    /\ UNCHANGED <<State, idx, arg, managed, free, data, live, boxes, vecVars>>

Spin(t) == \E i \in 1..Len(State) : SpinLoad(t, i)


\* ----------------------------------------------------------------- alloc
\* Pool.alloc(value).map(Box::new) on free stack fr: the block taken, or
\* the value handed back
\* (faulty variant: the value is not handed back)
AllocReturnLosesValue(fr, value) ==
    IF fr = <<>> THEN [tag |-> "Err", val |-> NoVal]
    ELSE [tag |-> "Ok", val |-> Head(fr)]
AllocReturn(fr, value) ==
    IF fr = <<>> THEN [tag |-> "Err", val |-> value]
    ELSE [tag |-> "Ok", val |-> Head(fr)]

\* the pool allocation that follows init() in alloc()
PoolAlloc(t) ==
    /\ pc[t] = "alloc"
    /\ LET r == AllocReturn(free, arg[t]) IN
       /\ ret' = [by |-> t, tag |-> r.tag, val |-> r.val]
       /\ IF free # <<>>
          THEN LET b == Head(free) IN
               /\ free' = Tail(free)
               /\ data' = [data EXCEPT ![b] = arg[t]]
               /\ live' = [live EXCEPT ![t][b] = @ + 1]
          ELSE UNCHANGED <<free, data, live>>
    /\ pc' = [pc EXCEPT ![t] = "idle"]
    /\ arg' = [arg EXCEPT ![t] = NoVal]
    /\ UNCHANGED <<State, seen, hb, idx, managed, boxes, vecVars>>

\* ---------------------------------------------------------------- handle
\* a Box goes out of scope: its value is dropped, its block goes back
Drop(t, b) ==
    /\ pc[t] = "idle"
    /\ live[t][b] > 0
    /\ live' = [live EXCEPT ![t][b] = @ - 1]
    /\ free' = <<b>> \o free
    /\ data' = [data EXCEPT ![b] = NoVal]
    /\ ret' = NoRet
    /\ UNCHANGED <<State, seen, hb, pc, idx, arg, managed, boxes, vecVars>>

\* *boxed = v
DerefMut(t, b, v) ==
    /\ pc[t] = "idle"
    /\ live[t][b] > 0
    /\ data[b] # v
    /\ data' = [data EXCEPT ![b] = v]
    /\ ret' = NoRet
    /\ UNCHANGED <<State, seen, hb, pc, idx, arg, managed, free, live, boxes, vecVars>>

\* derive(Clone) on Box: BoxedValue::clone takes a block from the pool for
\* a copy of the value and panics ("OOM") when the pool has none
\* (faulty variant: the copy shares the block)
BoxCloneShares(t, b) ==
    /\ live' = [live EXCEPT ![t][b] = @ + 1]
    /\ ret' = [by |-> t, tag |-> "Cloned", val |-> b]
    /\ UNCHANGED <<free, data, pc, vecVars>>
BoxClone(t, b) ==
    IF free # <<>>
    THEN LET c == Head(free) IN
         /\ free' = Tail(free)
         /\ data' = [data EXCEPT ![c] = data[b]]
         /\ live' = [live EXCEPT ![t][c] = @ + 1]
         /\ ret' = [by |-> t, tag |-> "Cloned", val |-> c]
         /\ pc' = pc
    ELSE /\ pc' = [pc EXCEPT ![t] = "panicked"]
         /\ ret' = NoRet
         /\ UNCHANGED <<free, data, live>>

Clone(t, b) ==
    /\ pc[t] = "idle"
    /\ live[t][b] > 0
    /\ BoxClone(t, b)
    /\ UNCHANGED <<State, seen, hb, idx, arg, managed, boxes, vecVars>>

Next ==
    \E t \in Threads :
       \/ \E v \in Values : Call(t, v)
       \/ Cas(t)
       \/ Manage(t)
       \/ Store(t)
       \/ Spin(t)
       \/ PoolAlloc(t)
       \/ \E b \in BLOCKS : Drop(t, b)
       \/ \E b \in BLOCKS : \E v \in Values : DerefMut(t, b, v)
       \/ \E b \in BLOCKS : Clone(t, b)

Spec == Init /\ [][Next]_vars

\* The callers of the liveness specification only allocate and drop, and all
\* pass the same value: init() never looks at the value, and what a caller
\* does with a handle touches neither STATE nor init().
InitNext ==
    \E t \in Threads :
       \/ Call(t, 42)
       \/ Cas(t)
       \/ Manage(t)
       \/ Store(t)
       \/ Spin(t)
       \/ PoolAlloc(t)
       \/ \E b \in BLOCKS : Drop(t, b)

\* a thread inside init() keeps taking steps, and a store to STATE becomes
\* visible to a spinning load in finite time
InitStep(t) == Cas(t) \/ Manage(t) \/ Store(t) \/ SpinLoad(t, Len(State))

FairSpec == Init /\ [][InitNext]_vars /\ \A t \in Threads : WF_vars(InitStep(t))

\* ------------------------------------------------- the heap-backed build
\* boxes alive in the threads 1..n
RECURSIVE BoxesAmong(_)
BoxesAmong(n) == IF n = 0 THEN 0 ELSE Len(boxes[n]) + BoxesAmong(n - 1)

\* boxes alive over all threads
BoxCount == BoxesAmong(NumThreads)

\* box_pool! under feature "alloc": Ok(Box::new(alloc::boxed::Box::new(value)))
\* (faulty variant: $capacity is enforced)
AllocFeatureCapped(t, value) ==
    IF BoxCount >= N THEN [tag |-> "Err", val |-> value]
    ELSE [tag |-> "Ok", val |-> Len(boxes[t]) + 1]
AllocFeatureReturn(t, value) == [tag |-> "Ok", val |-> Len(boxes[t]) + 1]

\* $name.alloc(value) of the heap-backed build; arg shows the value of the
\* call just made
HeapAlloc(t, v) ==
    /\ Len(boxes[t]) < MaxBoxes
    /\ LET r == AllocFeatureReturn(t, v) IN
       /\ ret' = [by |-> t, tag |-> r.tag, val |-> r.val]
       /\ boxes' = IF r.tag = "Ok" THEN [boxes EXCEPT ![t] = Append(@, v)] ELSE boxes
    /\ arg' = [u \in Threads |-> IF u = t THEN v ELSE NoVal]
    /\ UNCHANGED <<State, seen, hb, pc, idx, managed, free, data, live, vecVars>>

\* a heap box goes out of scope
HeapDrop(t, i) ==
    /\ i \in 1..Len(boxes[t])
    /\ boxes' = [boxes EXCEPT ![t] = SubSeq(@, 1, i - 1) \o SubSeq(@, i + 1, Len(@))]
    /\ ret' = NoRet
    /\ arg' = [u \in Threads |-> NoVal]
    /\ UNCHANGED <<State, seen, hb, pc, idx, managed, free, data, live, vecVars>>

\* *boxed = v on a heap box
HeapDerefMut(t, i, v) ==
    /\ i \in 1..Len(boxes[t])
    /\ boxes[t][i] # v
    /\ boxes' = [boxes EXCEPT ![t][i] = v]
    /\ ret' = NoRet
    /\ arg' = [u \in Threads |-> NoVal]
    /\ UNCHANGED <<State, seen, hb, pc, idx, managed, free, data, live, vecVars>>

\* derive(Clone) on Box over alloc::boxed::Box: a new heap box, same value
HeapClone(t, i) ==
    /\ i \in 1..Len(boxes[t])
    /\ Len(boxes[t]) < MaxBoxes
    /\ boxes' = [boxes EXCEPT ![t] = Append(@, @[i])]
    /\ ret' = [by |-> t, tag |-> "Cloned", val |-> Len(boxes[t]) + 1]
    /\ arg' = [u \in Threads |-> NoVal]
    /\ UNCHANGED <<State, seen, hb, pc, idx, managed, free, data, live, vecVars>>

NextAlloc ==
    \E t \in Threads :
       \/ \E v \in Values : HeapAlloc(t, v)
       \/ \E i \in 1..MaxBoxes : HeapDrop(t, i)
       \/ \E i \in 1..MaxBoxes : \E v \in Values : HeapDerefMut(t, i, v)
       \/ \E i \in 1..MaxBoxes : HeapClone(t, i)

SpecAlloc == Init /\ [][NextAlloc]_vars

\* =========================================== Vec<T, N> and String<N>
\* what an operation hands back to its caller
Ok == [tag |-> "Ok", val |-> NoVal]
Err(item) == [tag |-> "Err", val |-> item]
\* Err(crate::Error::BufferOverflow)
BufferOverflow == [tag |-> "BufferOverflow", val |-> NoVal]
Some(item) == [tag |-> "Some", val |-> item]
None == [tag |-> "None", val |-> NoVal]
\* a T returned by value
Value(item) == [tag |-> "Value", val |-> item]
\* the call does not return: it panics
Panic == [tag |-> "Panic", val |-> NoVal]
\* an operation's outcome: the container it leaves and what it returns
Out(v, r) == [vec |-> v, res |-> r]

\* the slices and iterators the callers pass
Slices == UNION {[1..k -> Values] : k \in 0..(N + 1)}
\* the predicates passed to retain(): keep the elements that are in a set
Predicates == SUBSET Values

\* v without the element at (0-based) index, and v with item put there
Without(v, index) == SubSeq(v, 1, index) \o SubSeq(v, index + 2, Len(v))
With(v, index, item) ==
    SubSeq(v, 1, index) \o <<item>> \o SubSeq(v, index + 1, Len(v))
\* the first n elements of v
Prefix(v, n) == SubSeq(v, 1, n)
\* n copies of value
RECURSIVE Repeat(_, _)
Repeat(value, n) == IF n = 0 THEN <<>> ELSE <<value>> \o Repeat(value, n - 1)

\* T::default()
Default == 0

\* capacity() of the heapless::Vec<T, N>
capacity == N

\* -------------------------------------------------- fixed-capacity build
\* push: self.0.push(item), heapless hands the item back when full
\* (faulty variant: the item is not handed back)
PushFixedDropsItem(v, item) ==
    IF Len(v) < capacity THEN Out(Append(v, item), Ok) ELSE Out(v, Err(NoVal))
PushFixed(v, item) ==
    IF Len(v) < capacity THEN Out(Append(v, item), Ok) ELSE Out(v, Err(item))

\* pop: self.0.pop()
Pop(v) ==
    IF v = <<>> THEN Out(v, None)
    ELSE Out(Prefix(v, Len(v) - 1), Some(v[Len(v)]))

\* insert: self.0.insert(index, element); heapless panics on an index past
\* the end and hands the element back when full
InsertFixed(v, index, element) ==
    IF index > Len(v) THEN Out(v, Panic)
    ELSE IF Len(v) = capacity THEN Out(v, Err(element))
    ELSE Out(With(v, index, element), Ok)

\* extend_from_slice: self.0.extend_from_slice(other).map_err(|_| BufferOverflow)
ExtendFromSliceFixed(v, other) ==
    IF Len(v) + Len(other) > capacity THEN Out(v, BufferOverflow)
    ELSE Out(v \o other, Ok)

\* from_slice: let mut v = Self::new(); v.extend_from_slice(other)?; Ok(v)
\* (on Err the new vector is dropped and the caller keeps what it had)
\* (faulty variant: the slice is appended to the vector at hand)
FromSliceFixedOntoSelf(v, other) == ExtendFromSliceFixed(v, other)
FromSliceFixed(v, other) ==
    LET r == ExtendFromSliceFixed(<<>>, other) IN
    IF r.res = Ok THEN Out(r.vec, Ok) ELSE Out(v, r.res)

\* resize: self.0.resize(new_len, value).map_err(|_| BufferOverflow)
\* (faulty variant: the new length is clamped to the capacity)
ResizeFixedClamps(v, new_len, value) ==
    IF new_len > capacity THEN Out(v \o Repeat(value, capacity - Len(v)), Ok)
    ELSE IF new_len > Len(v) THEN Out(v \o Repeat(value, new_len - Len(v)), Ok)
    ELSE Out(Prefix(v, new_len), Ok)
ResizeFixed(v, new_len, value) ==
    IF new_len > capacity THEN Out(v, BufferOverflow)
    ELSE IF new_len > Len(v) THEN Out(v \o Repeat(value, new_len - Len(v)), Ok)
    ELSE Out(Prefix(v, new_len), Ok)

\* truncate: self.0.truncate(len)
Truncate(v, len) == IF len > Len(v) THEN Out(v, Ok) ELSE Out(Prefix(v, len), Ok)

\* clear: self.0.clear()
Clear(v) == Out(<<>>, Ok)

\* remove: self.0.remove(index), which panics on an index out of bounds
Remove(v, index) ==
    IF index >= Len(v) THEN Out(v, Panic)
    ELSE Out(Without(v, index), Value(v[index + 1]))

\* swap_remove: self.0.swap_remove(index): the last element takes the place
\* of the removed one; panics on an index out of bounds
SwapRemove(v, index) ==
    IF index >= Len(v) THEN Out(v, Panic)
    ELSE IF index = Len(v) - 1 THEN Out(Prefix(v, index), Value(v[index + 1]))
    ELSE Out([Prefix(v, Len(v) - 1) EXCEPT ![index + 1] = v[Len(v)]],
             Value(v[index + 1]))

\* retain: self.0.retain(f), the kept elements stay in order
Retain(v, f) == Out(SelectSeq(v, LAMBDA e : e \in f), Ok)

\* extend: self.0.extend(iter); heapless pushes item after item and panics
\* on the first that does not fit
ExtendFixed(v, iter) ==
    IF Len(v) + Len(iter) > capacity
    THEN Out(v \o Prefix(iter, capacity - Len(v)), Panic)
    ELSE Out(v \o iter, Ok)

\* from_iter: Self(FromIterator::from_iter(iter)); heapless panics on the
\* first item that does not fit
FromIterFixed(v, iter) ==
    IF Len(iter) > capacity THEN Out(v, Panic) ELSE Out(iter, Ok)

\* ----------------------------------------------------- heap-backed build
\* push: self.0.push(item); Ok(())
\* (faulty variant: N is enforced)
PushAllocCapped(v, item) ==
    IF Len(v) < N THEN Out(Append(v, item), Ok) ELSE Out(v, Err(item))
PushAlloc(v, item) == Out(Append(v, item), Ok)

\* insert: self.0.insert(index, element); Ok(()); alloc panics on an index
\* past the end
InsertAlloc(v, index, element) ==
    IF index > Len(v) THEN Out(v, Panic)
    ELSE Out(With(v, index, element), Ok)

\* extend_from_slice: self.0.extend_from_slice(other); Ok(())
ExtendFromSliceAlloc(v, other) == Out(v \o other, Ok)

\* from_slice: let mut v = Self::new(); v.extend_from_slice(other)?; Ok(v)
FromSliceAlloc(v, other) ==
    LET r == ExtendFromSliceAlloc(<<>>, other) IN
    IF r.res = Ok THEN Out(r.vec, Ok) ELSE Out(v, r.res)

\* resize: self.0.resize(new_len, value); Ok(())
ResizeAlloc(v, new_len, value) ==
    IF new_len > Len(v) THEN Out(v \o Repeat(value, new_len - Len(v)), Ok)
    ELSE Out(Prefix(v, new_len), Ok)

\* extend: self.0.extend(iter)
ExtendAlloc(v, iter) == Out(v \o iter, Ok)

\* from_iter: Self(FromIterator::from_iter(iter))
FromIterAlloc(v, iter) == Out(iter, Ok)

\* ------------------------------------------------------------- String<N>
\* the chars the callers pass: 'a' (one byte) and U+00E9 (two bytes)
Chars == {97, 233}
\* char::encode_utf8, for code points below U+0800
encode_utf8(c) ==
    IF c < 128 THEN <<c>> ELSE <<192 + (c \div 64), 128 + (c % 64)>>
\* str::as_bytes of a string given as its chars
RECURSIVE as_bytes(_)
as_bytes(string) ==
    IF string = <<>> THEN <<>>
    ELSE encode_utf8(Head(string)) \o as_bytes(Tail(string))
\* the strings the callers pass
Strs == UNION {[1..k -> Chars] : k \in 0..2}

\* String::push_str, fixed-capacity build: self.0.push_str(string), which
\* is Err(()) and appends nothing when the bytes do not fit
\* (faulty variant: the bytes that fit are appended and Ok is returned)
PushStrFixedTruncates(v, string) ==
    IF Len(v) + Len(as_bytes(string)) > capacity
    THEN Out(v \o Prefix(as_bytes(string), capacity - Len(v)), Ok)
    ELSE Out(v \o as_bytes(string), Ok)
PushStrFixed(v, string) ==
    IF Len(v) + Len(as_bytes(string)) > capacity THEN Out(v, Err(NoVal))
    ELSE Out(v \o as_bytes(string), Ok)
\* String::push, fixed-capacity build: self.0.push(c)
StrPushFixed(v, c) ==
    IF Len(v) + Len(encode_utf8(c)) > capacity THEN Out(v, Err(NoVal))
    ELSE Out(v \o encode_utf8(c), Ok)
\* String::push_str, heap-backed build: self.0.push_str(string); Ok(())
PushStrAlloc(v, string) == Out(v \o as_bytes(string), Ok)
\* String::push, heap-backed build: self.0.push(c); Ok(())
StrPushAlloc(v, c) == Out(v \o encode_utf8(c), Ok)

\* --------------------------------------------------------------- actions
\* The builds a run is about: the fixed-capacity one, the heap-backed one,
\* or one program compiled for both and run side by side
OnFixed(b) == b \in {"heapless", "both"}
OnAlloc(b) == b \in {"alloc", "both"}

\* Err(item), Err(()) or Err(BufferOverflow)
CapacityExceeded(r) == r.tag \in {"Err", "BufferOverflow"}

\* what the program holds after an operation: nothing once a build has
\* panicked; the side-by-side run ends ("Exceeded") when the fixed-capacity
\* build has reported that its capacity was exceeded
KindAfter(b, k, hr, ar) ==
    IF (OnFixed(b) /\ hr = Panic) \/ (OnAlloc(b) /\ ar = Panic) THEN "Panicked"
    ELSE IF b = "both" /\ CapacityExceeded(hr) THEN "Exceeded"
    ELSE k

\* the text of a serialization is dropped by the operation that follows
NoSerde ==
    /\ json' = NoJson
    /\ decoded' = NoDecoded

\* the operation `name` is applied to the container of build b: ho is its
\* outcome in the fixed-capacity build, ao in the heap-backed build
Apply(b, name, x, n, s, keep, ho, ao) ==
    /\ OnAlloc(b) => Len(ao.vec) <= N + MaxGrow
    /\ vop' = [name |-> name, x |-> x, n |-> n, s |-> s, keep |-> keep]
    /\ hvec' = IF OnFixed(b) THEN ho.vec ELSE hvec
    /\ hres' = IF OnFixed(b) THEN ho.res ELSE hres
    /\ avec' = IF OnAlloc(b) THEN ao.vec ELSE avec
    /\ ares' = IF OnAlloc(b) THEN ao.res ELSE ares
    /\ kind' = KindAfter(b, kind, ho.res, ao.res)
    /\ UNCHANGED <<hiter, aiter, hclone, aclone, slots, reads>>
    /\ NoSerde
    /\ UNCHANGED poolVars

\* Vec::new(): the program starts over with an empty vector
New ==
    /\ ~hiter.live /\ ~hclone.live
    /\ ~aiter.live /\ ~aclone.live
    /\ vop # NoOp
    /\ kind' = "Vec"
    /\ hvec' = <<>>
    /\ avec' = <<>>
    /\ vop' = NoOp
    /\ hres' = NoRes
    /\ ares' = NoRes
    /\ hiter' = NoIter
    /\ aiter' = NoAllocIter
    /\ hclone' = NoIter
    /\ aclone' = NoAllocIter
    /\ slots' = <<>>
    /\ reads' = {}
    /\ NoSerde
    /\ UNCHANGED poolVars

\* Vec::from_slice(other); on Ok the program goes on with the new vector
FromSlice(b, other) ==
    /\ kind = "Vec"
    /\ Apply(b, "from_slice", NoVal, 0, other, {},
             FromSliceFixed(hvec, other), FromSliceAlloc(avec, other))

\* iter.collect::<Vec<T, N>>(): the program goes on with the new vector
FromIter(b, iter) ==
    /\ kind = "Vec"
    /\ Apply(b, "from_iter", NoVal, 0, iter, {},
             FromIterFixed(hvec, iter), FromIterAlloc(avec, iter))

Push(b, item) ==
    /\ kind = "Vec"
    /\ Apply(b, "push", item, 0, <<>>, {},
             PushFixed(hvec, item), PushAlloc(avec, item))

VecPop(b) ==
    /\ kind = "Vec"
    /\ Apply(b, "pop", NoVal, 0, <<>>, {}, Pop(hvec), Pop(avec))

Insert(b, index, element) ==
    /\ kind = "Vec"
    /\ Apply(b, "insert", element, index, <<>>, {},
             InsertFixed(hvec, index, element), InsertAlloc(avec, index, element))

ExtendFromSlice(b, other) ==
    /\ kind = "Vec"
    /\ Apply(b, "extend_from_slice", NoVal, 0, other, {},
             ExtendFromSliceFixed(hvec, other), ExtendFromSliceAlloc(avec, other))

Extend(b, iter) ==
    /\ kind = "Vec"
    /\ Apply(b, "extend", NoVal, 0, iter, {},
             ExtendFixed(hvec, iter), ExtendAlloc(avec, iter))

Resize(b, new_len, value) ==
    /\ kind = "Vec"
    /\ Apply(b, "resize", value, new_len, <<>>, {},
             ResizeFixed(hvec, new_len, value), ResizeAlloc(avec, new_len, value))

\* resize_default: self.resize(new_len, T::default())
ResizeDefault(b, new_len) ==
    /\ kind = "Vec"
    /\ Apply(b, "resize_default", NoVal, new_len, <<>>, {},
             ResizeFixed(hvec, new_len, Default), ResizeAlloc(avec, new_len, Default))

VecTruncate(b, len) ==
    /\ kind = "Vec"
    /\ Apply(b, "truncate", NoVal, len, <<>>, {}, Truncate(hvec, len), Truncate(avec, len))

VecClear(b) ==
    /\ kind = "Vec"
    /\ Apply(b, "clear", NoVal, 0, <<>>, {}, Clear(hvec), Clear(avec))

VecRemove(b, index) ==
    /\ kind = "Vec"
    /\ Apply(b, "remove", NoVal, index, <<>>, {}, Remove(hvec, index), Remove(avec, index))

VecSwapRemove(b, index) ==
    /\ kind = "Vec"
    /\ Apply(b, "swap_remove", NoVal, index, <<>>, {},
             SwapRemove(hvec, index), SwapRemove(avec, index))

VecRetain(b, f) ==
    /\ kind = "Vec"
    /\ Apply(b, "retain", NoVal, 0, <<>>, f, Retain(hvec, f), Retain(avec, f))

\* String::new(): the program starts over with an empty string
StrNew ==
    /\ kind \in {"Vec", "String", "Panicked", "Exceeded"}
    /\ vop.name # "String::new"
    /\ kind' = "String"
    /\ hvec' = <<>>
    /\ avec' = <<>>
    /\ vop' = [NoOp EXCEPT !.name = "String::new"]
    /\ hres' = NoRes
    /\ ares' = NoRes
    /\ UNCHANGED <<hiter, aiter, hclone, aclone, slots, reads>>
    /\ NoSerde
    /\ UNCHANGED poolVars

StrPush(b, c) ==
    /\ kind = "String"
    /\ Apply(b, "String::push", c, 0, <<>>, {}, StrPushFixed(hvec, c), StrPushAlloc(avec, c))

StrPushStr(b, string) ==
    /\ kind = "String"
    /\ Apply(b, "String::push_str", NoVal, 0, string, {},
             PushStrFixed(hvec, string), PushStrAlloc(avec, string))

\* ------------------------------------------------------ by-value iterator
\* what becomes of the element in a slot: "live" while the buffer owns it,
\* "moved" once next() has read it out, "dropped" once it was dropped in
\* place, "twice" when it is moved out or dropped a second time
MoveOut(st) == IF st = "live" THEN "moved" ELSE "twice"
DropInPlace(st) == IF st = "live" THEN "dropped" ELSE "twice"

\* the elements an iterator of the fixed-capacity build has yet to yield
Remaining(it) == SubSeq(it.vec, it.next + 1, Len(it.vec))

\* IntoIterator for Vec: IntoIter { vec: self.0, next: 0 }, and
\* IntoIter { iter: self.0.into_iter() } under "alloc"
IntoIter(b) ==
    /\ kind = "Vec"
    /\ kind' = "IntoIter"
    /\ vop' = [NoOp EXCEPT !.name = "into_iter"]
    /\ IF OnFixed(b)
       THEN /\ hiter' = [vec |-> hvec, next |-> 0, live |-> TRUE]
            /\ slots' = [i \in 1..Len(hvec) |-> "live"]
       ELSE UNCHANGED <<hiter, slots>>
    /\ IF OnAlloc(b)
       THEN aiter' = [rest |-> avec, live |-> TRUE]
       ELSE UNCHANGED aiter
    /\ reads' = {}
    /\ hvec' = <<>>
    /\ avec' = <<>>
    /\ hres' = NoRes
    /\ ares' = NoRes
    /\ UNCHANGED <<hclone, aclone>>
    /\ NoSerde
    /\ UNCHANGED poolVars

\* IntoIter::next, fixed-capacity build: the iterator it leaves, what it
\* returns and the slots it reads
\* (faulty variant: next is not advanced)
NextFixedStays(it) ==
    IF it.next < Len(it.vec)
    THEN [iter |-> it, res |-> Some(it.vec[it.next + 1]), read |-> {it.next}]
    ELSE [iter |-> it, res |-> None, read |-> {}]
NextFixed(it) ==
    IF it.next < Len(it.vec)
    THEN [iter |-> [it EXCEPT !.next = it.next + 1],
          res |-> Some(it.vec[it.next + 1]), read |-> {it.next}]
    ELSE [iter |-> it, res |-> None, read |-> {}]

\* IntoIter::next, heap-backed build: self.iter.next()
NextAllocIter(it) ==
    IF it.rest = <<>> THEN [iter |-> it, res |-> None]
    ELSE [iter |-> [it EXCEPT !.rest = Tail(it.rest)], res |-> Some(Head(it.rest))]

\* the slots after an operation that moved the elements of `read` out
Moved(sl, read) ==
    [i \in DOMAIN sl |-> IF (i - 1) \in read THEN MoveOut(sl[i]) ELSE sl[i]]

\* iterator.next() on the iterator into_iter() returned
IterNext(b) ==
    /\ kind = "IntoIter"
    /\ OnFixed(b) => hiter.live
    /\ OnAlloc(b) => aiter.live
    /\ IF OnFixed(b)
       THEN /\ hiter' = NextFixed(hiter).iter
            /\ hres' = NextFixed(hiter).res
            /\ reads' = NextFixed(hiter).read
            /\ slots' = Moved(slots, NextFixed(hiter).read)
       ELSE UNCHANGED <<hiter, hres, reads, slots>>
    /\ IF OnAlloc(b)
       THEN /\ aiter' = NextAllocIter(aiter).iter
            /\ ares' = NextAllocIter(aiter).res
       ELSE UNCHANGED <<aiter, ares>>
    /\ vop' = [NoOp EXCEPT !.name = "next"]
    /\ UNCHANGED <<kind, hvec, avec, hclone, aclone>>
    /\ NoSerde
    /\ UNCHANGED poolVars

\* Vec::set_len(new_len) on the iterator's vec: the length it leaves
\* (faulty variant: the length is left as it was)
SetLenKeeps(v, new_len) == Len(v)
SetLen(v, new_len) == new_len

\* Drop for IntoIter: drop_in_place(&mut vec.as_mut_slice()[next..]), then
\* vec.set_len(0), then the field vec is dropped with the length it has
\* left. The slots it reads, and what becomes of every slot.
DropReads(it) ==
    {i \in 0..(Len(it.vec) - 1) : i >= it.next \/ i < SetLen(it.vec, 0)}
DropSlots(it, sl) ==
    LET inPlace == [i \in DOMAIN sl |->
                      IF i - 1 >= it.next THEN DropInPlace(sl[i]) ELSE sl[i]]
    IN [i \in DOMAIN sl |->
          IF i - 1 < SetLen(it.vec, 0) THEN DropInPlace(inPlace[i]) ELSE inPlace[i]]

\* the iterator into_iter() returned goes out of scope
IterDrop(b) ==
    /\ kind = "IntoIter"
    /\ OnFixed(b) => hiter.live
    /\ OnAlloc(b) => aiter.live
    /\ IF OnFixed(b)
       THEN /\ hiter' = [hiter EXCEPT !.live = FALSE]
            /\ slots' = DropSlots(hiter, slots)
            /\ reads' = DropReads(hiter)
       ELSE UNCHANGED <<hiter, slots, reads>>
    /\ IF OnAlloc(b)
       THEN aiter' = [rest |-> <<>>, live |-> FALSE]
       ELSE UNCHANGED aiter
    /\ vop' = [NoOp EXCEPT !.name = "drop"]
    /\ hres' = NoRes
    /\ ares' = NoRes
    /\ UNCHANGED <<kind, hvec, avec, hclone, aclone>>
    /\ NoSerde
    /\ UNCHANGED poolVars

\* derive(Clone) on IntoIter, fixed-capacity build: vec.clone() clones the
\* slots 0..len of the buffer and next is copied. The slots it reads.
CloneReads(it) == 0..(Len(it.vec) - 1)
\* The buffers the clone can end up with: T::clone of a slot whose element
\* was moved out reads a value the iterator no longer owns (whatever is
\* left there, if the call returns at all)
CloneVecs(it, sl) ==
    {w \in [1..Len(it.vec) -> Values] :
        \A i \in 1..Len(it.vec) : sl[i] = "live" => w[i] = it.vec[i]}
\* does the clone read a slot whose element is gone
CloneReadsMoved(it, sl) == \E i \in CloneReads(it) : sl[i + 1] # "live"

\* derive(Clone) on IntoIter, heap-backed build: alloc::vec::IntoIter::clone
\* clones the elements not yet yielded
CloneAllocIter(it) == [rest |-> it.rest, live |-> TRUE]

\* iterator.clone(): the program keeps one clone at a time
IterClone(b) ==
    /\ kind = "IntoIter"
    /\ OnFixed(b) => hiter.live /\ ~hclone.live
    /\ OnAlloc(b) => aiter.live /\ ~aclone.live
    /\ vop' = [NoOp EXCEPT !.name = "clone"]
    /\ IF OnAlloc(b)
       THEN aclone' = CloneAllocIter(aiter) /\ ares' = Ok
       ELSE UNCHANGED <<aclone, ares>>
    /\ IF OnFixed(b)
       THEN /\ reads' = CloneReads(hiter)
            /\ \/ /\ \E w \in CloneVecs(hiter, slots) :
                       hclone' = [vec |-> w, next |-> hiter.next, live |-> TRUE]
                  /\ hres' = Ok
                  /\ kind' = kind
               \/ /\ CloneReadsMoved(hiter, slots)
                  /\ hclone' = hclone
                  /\ hres' = Panic
                  /\ kind' = "Panicked"
       ELSE UNCHANGED <<reads, hclone, hres, kind>>
    /\ UNCHANGED <<hvec, avec, hiter, aiter, slots>>
    /\ NoSerde
    /\ UNCHANGED poolVars

\* clone.next()
CloneNext(b) ==
    /\ kind = "IntoIter"
    /\ OnFixed(b) => hclone.live
    /\ OnAlloc(b) => aclone.live
    /\ IF OnFixed(b)
       THEN /\ hclone' = NextFixed(hclone).iter
            /\ hres' = NextFixed(hclone).res
       ELSE UNCHANGED <<hclone, hres>>
    /\ IF OnAlloc(b)
       THEN /\ aclone' = NextAllocIter(aclone).iter
            /\ ares' = NextAllocIter(aclone).res
       ELSE UNCHANGED <<aclone, ares>>
    /\ vop' = [NoOp EXCEPT !.name = "clone.next"]
    /\ reads' = {}
    /\ UNCHANGED <<kind, hvec, avec, hiter, aiter, slots>>
    /\ NoSerde
    /\ UNCHANGED poolVars

\* the clone goes out of scope
CloneDrop(b) ==
    /\ kind = "IntoIter"
    /\ OnFixed(b) => hclone.live
    /\ OnAlloc(b) => aclone.live
    /\ hclone' = NoIter
    /\ aclone' = NoAllocIter
    /\ vop' = [NoOp EXCEPT !.name = "clone.drop"]
    /\ reads' = {}
    /\ hres' = NoRes
    /\ ares' = NoRes
    /\ UNCHANGED <<kind, hvec, avec, hiter, aiter, slots>>
    /\ NoSerde
    /\ UNCHANGED poolVars

\* ------------------------------------------------------------------ serde
\* a token of JSON text
Tok(t, v) == [t |-> t, v |-> v]
\* the elements of v with a comma between them
RECURSIVE Items(_)
Items(v) ==
    IF v = <<>> THEN <<>>
    ELSE IF Len(v) = 1 THEN <<Tok("num", v[1])>>
    ELSE <<Tok("num", v[1]), Tok(",", 0)>> \o Items(Tail(v))
\* serde_json::to_string(&v): derive(Serialize) on the newtype Vec(Inner)
\* writes what Inner writes, a JSON array
to_string(v) == <<Tok("[", 0)>> \o Items(v) \o <<Tok("]", 0)>>

\* the numbers of the array in a JSON text
RECURSIVE Elements(_)
Elements(text) ==
    IF text = <<>> \/ Head(text).t = "]" THEN <<>>
    ELSE IF Head(text).t = "num" THEN <<Head(text).v>> \o Elements(Tail(text))
    ELSE Elements(Tail(text))
\* the sequence visitor of heapless::Vec<T, M>: it pushes element after
\* element and gives up (invalid length) on the first that does not fit
RECURSIVE VisitSeq(_, _, _)
VisitSeq(values, items, M) ==
    IF items = <<>> THEN Out(values, Ok)
    ELSE IF Len(values) >= M THEN Out(<<>>, Err(NoVal))
    ELSE VisitSeq(Append(values, Head(items)), Tail(items), M)
\* serde_json::from_str::<Vec<T, M>>(&text), fixed-capacity build
\* (faulty variant: the capacity of the source is used)
from_str_fixed_source_capacity(text, M) == VisitSeq(<<>>, Elements(text), N)
from_str_fixed(text, M) == VisitSeq(<<>>, Elements(text), M)
\* serde_json::from_str::<Vec<T, M>>(&text), heap-backed build
from_str_alloc(text, M) == Out(Elements(text), Ok)

\* tests::serde: the vector is written with to_string and the text is read
\* back with from_str into a Vec<T, M>
Serde(b, M) ==
    /\ kind = "Vec"
    /\ vop' = [NoOp EXCEPT !.name = "serde", !.n = M]
    /\ json' = [fixed |-> IF OnFixed(b) THEN to_string(hvec) ELSE <<>>,
                alloc |-> IF OnAlloc(b) THEN to_string(avec) ELSE <<>>]
    /\ decoded' = [fixed |-> IF OnFixed(b) THEN from_str_fixed(json'.fixed, M)
                             ELSE NoOut,
                   alloc |-> IF OnAlloc(b) THEN from_str_alloc(json'.alloc, M)
                             ELSE NoOut]
    /\ hres' = IF OnFixed(b) THEN decoded'.fixed.res ELSE hres
    /\ ares' = IF OnAlloc(b) THEN decoded'.alloc.res ELSE ares
    /\ UNCHANGED <<kind, hvec, avec, hiter, aiter, hclone, aclone, slots, reads>>
    /\ UNCHANGED poolVars

\* what a program compiled for build b can do with its container
NextBuild(b) ==
    \/ New
    \/ \E other \in Slices : FromSlice(b, other)
    \/ \E iter \in Slices : FromIter(b, iter)
    \/ \E item \in Values : Push(b, item)
    \/ VecPop(b)
    \/ \E index \in 0..(N + 1) : \E element \in Values : Insert(b, index, element)
    \/ \E other \in Slices : ExtendFromSlice(b, other)
    \/ \E iter \in Slices : Extend(b, iter)
    \/ \E new_len \in 0..(N + 1) : \E value \in Values : Resize(b, new_len, value)
    \/ \E new_len \in 0..(N + 1) : ResizeDefault(b, new_len)
    \/ \E len \in 0..(N + 1) : VecTruncate(b, len)
    \/ VecClear(b)
    \/ \E index \in 0..(N + 1) : VecRemove(b, index)
    \/ \E index \in 0..(N + 1) : VecSwapRemove(b, index)
    \/ \E f \in Predicates : VecRetain(b, f)
    \/ StrNew
    \/ \E c \in Chars : StrPush(b, c)
    \/ \E string \in Strs : StrPushStr(b, string)
    \/ IntoIter(b)
    \/ IterNext(b)
    \/ IterDrop(b)
    \/ IterClone(b)
    \/ CloneNext(b)
    \/ CloneDrop(b)
    \/ \E M \in 0..(N + 1) : Serde(b, M)

\* the fixed-capacity build (feature "heapless")
NextVec == NextBuild("heapless")
SpecVec == Init /\ [][NextVec]_vars

\* the heap-backed build (feature "alloc")
NextVecAlloc == NextBuild("alloc")
SpecVecAlloc == Init /\ [][NextVecAlloc]_vars

\* one program, compiled for both builds and run side by side
NextBoth == NextBuild("both")
SpecBoth == Init /\ [][NextBoth]_vars


\* ====================================================== claims C11-C19

\* ================================================================ claims
\* the writes of Initializing: the compare_exchange calls that succeeded
Wins == {j \in 1..Len(State) : State[j].val = Initializing}
\* the threads in the registration loop or about to store Initialized
Registering == {t \in Threads : pc[t] \in {"manage", "store"}}
\* thread t has returned from init() and not yet acted on the pool
ReturnedFromInit(t) == pc[t] = "alloc"
\* thread t is inside init()
InInit(t) == pc[t] \in {"cas", "manage", "store", "spin"}
\* this step is thread t's pool allocation returning
AllocReturns(t) == pc[t] = "alloc" /\ pc'[t] = "idle"

\* C1: however the threads interleave their alloc() calls, at most one
\* compare_exchange ever writes Initializing, a thread enters the
\* registration loop only by that compare_exchange (so only the winner is
\* ever in it), no block is passed to manage() twice or is twice in the free
\* stack, and once Initialized is stored exactly one compare_exchange has won
\* and every block was passed to manage() exactly once.
C1_InitOnce ==
    /\ [](/\ Cardinality(Wins) <= 1
          /\ Cardinality(Registering) <= 1
          /\ Registering # {} => Cardinality(Wins) = 1 /\ Latest.val = Initializing
          /\ \A b \in BLOCKS : managed[b] <= 1 /\ InFree(b) <= 1
          /\ Latest.val = Initialized =>
                /\ Cardinality(Wins) = 1
                /\ \A b \in BLOCKS : managed[b] = 1)
    /\ [][\A t \in Threads : (pc[t] # "manage" /\ pc'[t] = "manage") =>
            /\ Latest.val = Uninitialized
            /\ State' = Append(State, Latest')
            /\ Latest'.val = Initializing]_vars
    /\ [][\A b \in BLOCKS : managed'[b] # managed[b] =>
            \E t \in Registering : pc[t] = "manage" /\ idx'[t] = b]_vars

\* every thread has gone through init(), one of them as the winner, and a
\* handle was handed out
C1_Witness ==
    /\ Latest.val = Initialized
    /\ \A t \in Threads : State[seen[t]].val = Initialized
    /\ ret.tag = "Ok"
    /\ \A b \in BLOCKS : managed[b] = 1

\* C2: a thread that has returned from init(), and so any handle that was
\* handed out, exists only when STATE is Initialized and all N blocks have
\* been registered.
C2_InitBeforeAlloc ==
    (\/ \E t \in Threads : ReturnedFromInit(t)
     \/ ret.tag \in {"Ok", "Err"}
     \/ \E t \in Threads : \E b \in BLOCKS : live[t][b] > 0)
    => /\ Latest.val = Initialized
       /\ \A b \in BLOCKS : managed[b] = 1

\* two threads have returned from init(): the winner and a loser
C2_Witness ==
    \E t, u \in Threads : t # u /\ ReturnedFromInit(t) /\ ReturnedFromInit(u)

\* C3: no block is at once free and owned, none is owned by two handles or
\* twice in the free stack, and from the moment the pool is initialized
\* every block is either free or owned by exactly one live handle.
C3_NoDoubleAllocation ==
    \A b \in BLOCKS :
        /\ InFree(b) + Owners(b) <= 1
        /\ Latest.val = Initialized => InFree(b) + Owners(b) = 1

\* two threads hold a handle each while a third block-holder could not exist
C3_Witness ==
    /\ LiveCount = N
    /\ \E t1, t2 \in Threads :
          /\ t1 # t2
          /\ \E b \in BLOCKS : live[t1][b] = 1
          /\ \E b \in BLOCKS : live[t2][b] = 1

\* C4: the pool allocation in alloc() succeeds exactly when fewer than N
\* handles are live at that moment; the block it hands out was free and
\* unowned (a released block is reused), and never more than N handles live.
C4_SucceedsIffBelowCapacity ==
    /\ [](LiveCount <= N)
    /\ [][\A t \in Threads : AllocReturns(t) =>
            IF LiveCount < N
            THEN /\ ret'.by = t /\ ret'.tag = "Ok"
                 /\ InFree(ret'.val) = 1
                 /\ Owners(ret'.val) = 0
                 /\ live'[t][ret'.val] = 1
                 /\ LiveCount' = LiveCount + 1
            ELSE /\ ret'.by = t /\ ret'.tag = "Err"
                 /\ LiveCount' = LiveCount]_vars

\* an alloc() has failed with all N handles live
C4_Witness == ret.tag = "Err" /\ LiveCount = N

\* C5: a failed alloc(value) returns Err(value) with the value passed in and
\* changes neither the free stack nor any block's contents nor the live
\* handles; a successful one returns a handle on a block holding value.
C5_ErrReturnsValue ==
    [][\A t \in Threads : AllocReturns(t) =>
         /\ ret'.by = t
         /\ ret'.tag = (IF free = <<>> THEN "Err" ELSE "Ok")
         /\ ret'.tag = "Err" =>
               /\ ret'.val = arg[t]
               /\ arg[t] \in Values
               /\ free' = free /\ data' = data /\ live' = live
         /\ ret'.tag = "Ok" =>
               /\ data'[ret'.val] = arg[t]
               /\ live'[t][ret'.val] = 1]_vars

\* an alloc(43) came back as Err(43) while a live handle holds 42
C5_Witness ==
    /\ ret.tag = "Err" /\ ret.val = 43
    /\ \E u \in Threads : \E b \in BLOCKS : live[u][b] = 1 /\ data[b] = 42

\* C6: a thread leaves the spin loop only on a read of Initialized, which
\* STATE then holds; and with every thread inside init() taking steps, every
\* call of init() returns.
C6_InitReturns ==
    /\ [][\A t \in Threads : (pc[t] = "spin" /\ pc'[t] # "spin") =>
            /\ pc'[t] = "alloc"
            /\ Latest.val = Initialized
            /\ State[seen'[t]].val = Initialized]_vars
    /\ \A t \in Threads : InInit(t) ~> ReturnedFromInit(t)

\* a loser is still spinning on a stale read after Initialized was stored
C6_Witness ==
    \E t \in Threads :
        pc[t] = "spin" /\ State[seen[t]].val = Initializing /\ Latest.val = Initialized

\* C7: STATE takes the values 0, 1, 2 in this order, each written at most
\* once; once it is Initialized nothing writes it or registers a block again
\* and a thread's steps inside init() leave the free stack alone; no thread
\* ever reaches an unreachable!() arm.
C7_StateMachine ==
    /\ [](/\ Len(State) <= 3
          /\ \A i \in 1..Len(State) : State[i].val = i - 1
          /\ \A t \in Threads : pc[t] # "unreachable")
    /\ [][Latest.val = Initialized =>
            /\ State' = State
            /\ managed' = managed
            /\ \A t \in Threads : (InInit(t) /\ pc'[t] # pc[t]) => free' = free]_vars

\* a thread that already owns a handle has gone through init() once more
C7_Witness ==
    \E t \in Threads :
        /\ ReturnedFromInit(t)
        /\ \E b \in BLOCKS : live[t][b] = 1
        /\ Latest.val = Initialized

\* C8: a thread that has returned from init() has read the write of
\* Initialized, that write carries (Release) all N manage() calls of the
\* winner, and the read (Acquire) has put them before the thread's pool
\* allocation.
C8_RegistrationsHappenBefore ==
    \A t \in Threads :
        ReturnedFromInit(t) =>
            /\ State[seen[t]].val = Initialized
            /\ State[seen[t]].rel = BLOCKS
            /\ hb[t] = BLOCKS

\* a loser, which registered nothing itself, has returned from init()
\* knowing every registration, while the winner is still in alloc()
C8_Witness ==
    \E t, u \in Threads :
        /\ t # u
        /\ ReturnedFromInit(t) /\ hb[t] = BLOCKS
        /\ ReturnedFromInit(u) /\ hb[u] = BLOCKS
        /\ LiveCount = 0

\* C9: in the heap-backed build every alloc(value) returns Ok, whatever the
\* number of live boxes, the new box holds value, and neither STATE nor the
\* free stack nor init() is involved.
C9_HeapAllocAlwaysOk ==
    /\ [](/\ ret.tag # "Err"
          /\ \A t \in Threads : pc[t] = "idle"
          /\ Len(State) = 1 /\ free = <<>>)
    /\ [][\A t \in Threads :
            (ret'.by = t /\ ret'.tag \in {"Ok", "Err"}) =>
               /\ ret'.tag = "Ok"
               /\ Len(boxes'[t]) = Len(boxes[t]) + 1
               /\ boxes'[t][ret'.val] = arg'[t]]_vars

\* an alloc() has succeeded with more than N boxes alive
C9_Witness == BoxCount > N /\ ret.tag = "Ok"

C11_PushOkThenErrItem ==
    [][vop'.name = "push" =>
          IF Len(hvec) < N
          THEN hres' = Ok /\ hvec' = Append(hvec, vop'.x)
          ELSE hres' = Err(vop'.x) /\ hvec' = hvec /\ Len(hvec') = N]_vars

\* N pushes of 42 onto the empty vector went in, the next push, of 43, came
\* back as Err(43)
C11_Witness ==
    /\ vop.name = "push"
    /\ vop.x = 43
    /\ hres = Err(43)
    /\ hvec = Repeat(42, N)

\* ------------------------------------------------------------------ C12
\* would the operation op take a vector with the elements v above N
WouldExceed(op, v) ==
    \/ op.name = "push" /\ Len(v) + 1 > N
    \/ op.name = "insert" /\ op.n <= Len(v) /\ Len(v) + 1 > N
    \/ op.name = "extend_from_slice" /\ Len(v) + Len(op.s) > N
    \/ op.name = "from_slice" /\ Len(op.s) > N
    \/ op.name \in {"resize", "resize_default"} /\ op.n > N

\* C12: in the fixed-capacity build the length is at most N and capacity()
\* is N in every state, and an operation among from_slice, push, insert,
\* extend_from_slice, resize and resize_default that would take the length
\* above N reports failure and leaves the buffer as it was.
C12_LengthAtMostN ==
    /\ [](Len(hvec) <= capacity /\ capacity = N)
    /\ [][WouldExceed(vop', hvec) =>
             CapacityExceeded(hres') /\ hvec' = hvec]_vars

\* an insert into a full vector was refused
C12_Witness ==
    /\ vop.name = "insert"
    /\ hres = Err(vop.x)
    /\ Len(hvec) = N

\* ------------------------------------------------------------------ C13
\* would the operation op take a container with the elements (bytes) v
\* above N: the operations of WouldExceed, those of String, and the two
\* that take an iterator
WouldExceedFallible(op, v) ==
    \/ WouldExceed(op, v)
    \/ op.name = "String::push" /\ Len(v) + Len(encode_utf8(op.x)) > N
    \/ op.name = "String::push_str" /\ Len(v) + Len(as_bytes(op.s)) > N
WouldExceedIter(op, v) ==
    \/ op.name = "extend" /\ Len(v) + Len(op.s) > N
    \/ op.name = "from_iter" /\ Len(op.s) > N

\* C13 as claimed: in the fixed-capacity build every mutating operation
\* that would exceed N, Vec::extend(iterator) and construction from an
\* iterator included, returns a capacity-exceeded failure value to its
\* caller and never panics.
C13_ExceedingNeverPanics ==
    [][WouldExceedFallible(vop', hvec) \/ WouldExceedIter(vop', hvec) =>
          CapacityExceeded(hres') /\ hres' # Panic]_vars

\* C13 as amended: in the fixed-capacity build push, insert,
\* extend_from_slice, from_slice, resize, resize_default, String::push and
\* String::push_str return a capacity-exceeded failure value, never panic
\* and leave the container as it was when they would exceed N; Vec::extend
\* and construction from an iterator, which have no failure value, return
\* normally when everything fits and panic when the iterator yields more
\* elements than fit.
C13_FallibleReturnErrIterPanics ==
    /\ [][WouldExceedFallible(vop', hvec) =>
             CapacityExceeded(hres') /\ hres' # Panic /\ hvec' = hvec
             /\ kind' = kind]_vars
    /\ [][vop'.name \in {"extend", "from_iter"} =>
             IF WouldExceedIter(vop', hvec)
             THEN hres' = Panic /\ kind' = "Panicked"
             ELSE hres' = Ok /\ kind' = kind]_vars

\* an extend() with more items than fit has panicked
C13_Witness ==
    /\ vop.name = "extend"
    /\ hres = Panic
    /\ kind = "Panicked"
    /\ Len(hvec) = N

\* ------------------------------------------------------------------ C14
\* the operations that are capacity-limited in the fixed-capacity build
CapacityLimited ==
    {"push", "insert", "extend_from_slice", "resize", "String::push",
     "String::push_str"}

\* C14: in the heap-backed build push, insert, extend_from_slice, resize,
\* String::push and String::push_str never return the failure value,
\* whatever N and the length; every push returns Ok and appends its item, so
\* N + k pushes onto an empty vector leave N + k elements in push order.
C14_HeapNeverFails ==
    [][/\ vop'.name \in CapacityLimited => ~CapacityExceeded(ares')
       /\ vop'.name = "push" =>
             ares' = Ok /\ avec' = Append(avec, vop'.x)]_vars

\* N pushes of 42 and one more push, of 43, all went in
C14_Witness ==
    /\ vop.name = "push"
    /\ ares = Ok
    /\ avec = Append(Repeat(42, N), 43)

\* ------------------------------------------------------------------ C15
\* C15: from_slice(s) returns Ok(v) with v.as_slice() equal to s whenever
\* Len(s) <= N in the fixed-capacity build, and for every s in the
\* heap-backed build; in the fixed-capacity build from_slice(s) with
\* Len(s) > N returns Err(BufferOverflow).
C15_FromSliceRoundTrip ==
    [][vop'.name = "from_slice" =>
          /\ ares' = Ok /\ avec' = vop'.s
          /\ IF Len(vop'.s) <= N
             THEN hres' = Ok /\ hvec' = vop'.s
             ELSE hres' = BufferOverflow]_vars

\* a slice of N elements, not all the same, came back from both builds
C15_Witness ==
    /\ vop.name = "from_slice"
    /\ Len(vop.s) = N
    /\ vop.s[1] # vop.s[N]
    /\ hres = Ok /\ hvec = vop.s
    /\ ares = Ok /\ avec = vop.s

\* ------------------------------------------------------------------ C16
\* the operations the two builds are compared on
EquivOps ==
    {"push", "insert", "pop", "truncate", "clear", "remove", "swap_remove",
     "retain"}

\* C16: one program run against both builds from an empty vector, for as long
\* as the fixed-capacity build does not have to go above N: the two builds
\* hold the same elements in every state; every push, insert, pop,
\* truncate, clear, remove, swap_remove and retain returns the same result
\* in both and leaves the same elements; into_iter() hands both iterators
\* the same elements and every next() yields the same item in both.
C16_BuildsAgree ==
    /\ [](kind \in {"Vec", "IntoIter"} =>
            /\ hvec = avec
            /\ hiter.live = aiter.live
            /\ hiter.live => Remaining(hiter) = aiter.rest)
    /\ [][vop'.name \in EquivOps /\ hvec = avec /\ ~WouldExceed(vop', hvec) =>
             hres' = ares' /\ hvec' = avec']_vars
    /\ [][vop'.name = "into_iter" /\ hvec = avec =>
             Remaining(hiter') = aiter'.rest /\ Remaining(hiter') = hvec]_vars
    /\ [][vop'.name = "next" /\ Remaining(hiter) = aiter.rest =>
             hres' = ares' /\ Remaining(hiter') = aiter'.rest]_vars

\* both builds have yielded the last of N elements, a 43 behind 42s
C16_Witness ==
    /\ vop.name = "next"
    /\ hiter.vec = Append(Repeat(42, N - 1), 43)
    /\ hiter.next = N
    /\ hres = Some(43)
    /\ ares = Some(43)

\* ------------------------------------------------------------------ C17
\* C17: a vector of length L written with to_string and read back with
\* from_str into a Vec<T, M> comes back equal to the original whenever
\* L <= M, whatever the capacity N of the original; when L > M the
\* fixed-capacity build fails to decode, and the heap-backed build decodes
\* a vector of length L with the original's elements.
C17_SerdeRoundTrip ==
    [][vop'.name = "serde" =>
          /\ decoded'.alloc = Out(avec, Ok)
          /\ IF Len(hvec) <= vop'.n
             THEN decoded'.fixed = Out(hvec, Ok)
             ELSE decoded'.fixed.res.tag = "Err"]_vars

\* N elements, not all the same, of a Vec<T, N> came back in a Vec<T, N + 1>
C17_Witness ==
    /\ vop.name = "serde"
    /\ vop.n = N + 1
    /\ Len(hvec) = N
    /\ hvec[1] # hvec[N]
    /\ decoded.fixed = Out(hvec, Ok)
    /\ decoded.alloc = Out(avec, Ok)

\* ------------------------------------------------------------------ C18
\* C18: the by-value iterator of the fixed-capacity build. next <= vec.len()
\* in every state; a call of next() with k - 1 elements already yielded
\* returns the element at index k - 1 and advances, and returns None once
\* all L were yielded; when the iterator is dropped exactly the elements at
\* indices >= next are dropped. No element is ever moved out or dropped a
\* second time, and after the drop every element of the original vector was
\* either yielded or dropped.
C18_IntoIterYieldsOrDrops ==
    /\ [](/\ hiter.live => hiter.next <= Len(hiter.vec)
          /\ \A i \in DOMAIN slots : slots[i] # "twice"
          /\ hiter.live => \A i \in DOMAIN slots :
                 slots[i] = IF i <= hiter.next THEN "moved" ELSE "live")
    /\ [][vop'.name = "next" =>
             IF hiter.next < Len(hiter.vec)
             THEN /\ hres' = Some(hiter.vec[hiter.next + 1])
                  /\ hiter'.next = hiter.next + 1
             ELSE hres' = None /\ hiter'.next = hiter.next]_vars
    /\ [][vop'.name = "drop" =>
             \A i \in DOMAIN slots :
                 slots'[i] = IF i - 1 >= hiter.next THEN "dropped"
                             ELSE "moved"]_vars

\* an iterator over N elements was dropped after one next(): the first
\* element was yielded, the last was dropped
C18_Witness ==
    /\ vop.name = "drop"
    /\ Len(hiter.vec) = N
    /\ hiter.next = 1
    /\ slots[1] = "moved"
    /\ slots[N] = "dropped"

\* ------------------------------------------------------------------ C19
\* C19: once next() has moved the element at index i out, no later operation
\* on the iterator reads, clones or drops slot i: every slot an operation
\* reads still holds its element. A clone made after k >= 1 calls of next()
\* reads only the slots at indices >= next, and it yields exactly the
\* elements the original has not yet yielded.
C19_MovedSlotsUntouched ==
    /\ [][vop'.name \in {"next", "drop", "clone"} =>
             \A i \in reads' : slots[i + 1] = "live"]_vars
    /\ [][vop'.name = "clone" =>
             /\ \A i \in reads' : i >= hiter.next
             /\ hres' = Ok
             /\ Remaining(hclone') = Remaining(hiter)]_vars

====
